---- MODULE Spec2Model ----
(***************************************************************************)
(* Model of play.c (play v0.1): the single-pass parser of a music "play    *)
(* string".  play(s, tonew) scans s one character per loop iteration,      *)
(* keeps a pending note with its half tone and duration, and calls tonew   *)
(* (frequency, 1000 / duration) through play_note.                         *)
(*                                                                         *)
(* Characters are their ASCII codes, so that the range tests, isdigit,     *)
(* toupper and "*s - '0'" are computed as the code computes them.  The     *)
(* input string is chosen in Init; one action models one branch of the     *)
(* loop body together with the loop's "s++, pos++".                        *)
(***************************************************************************)
EXTENDS Integers, Sequences, FiniteSets

VARIABLES
    s,                \* the input string (without its terminating NUL)
    pos,              \* int pos: number of characters consumed
    state,            \* enum parsing_state state
    octave,           \* int octave
    note,             \* char note
    duration,         \* int duration
    half_tone,        \* int half_tone
    pending_note,     \* bool pending_note
    length_specified, \* bool length_specified
    events,           \* the calls made to tonew so far, oldest first
    note_pos,         \* offset of the character last stored in note
    pc,               \* "loop" while scanning, "returned" after return
    ret               \* the value returned by play (meaningful once returned)

vars == <<s, pos, state, octave, note, duration, half_tone, pending_note,
          length_specified, events, note_pos, pc, ret>>

-----------------------------------------------------------------------------
(* Bounds of the model *)

MaxLen == 4

-----------------------------------------------------------------------------
(* Character and enum constants of the source *)

COMMAND == 0
OCTAVE_NUMBER == 1

NUL == 0
ch_0 == 48
ch_sharp == 35
ch_plus == 43
ch_minus == 45
ch_A == 65
ch_B == 66
ch_C == 67
ch_D == 68
ch_E == 69
ch_F == 70
ch_G == 71
ch_O == 79
ch_R == 82
ch_a == 97
ch_g == 103
ch_o == 111
ch_r == 114

\* The characters inputs are built from: C R O, lower case e r o,
\* the digits 0 1 9, the half tones # and -, and % (no meaning).
Alphabet == {ch_C, 101, ch_R, ch_r, ch_O, ch_o,
             ch_0, 49, 57, ch_sharp, ch_minus, 37}

\* All inputs of at most MaxLen characters.
Inputs == UNION {[1..n -> Alphabet] : n \in 0..MaxLen}

\* "char note;" is not initialised: any value may be in it at start.
NoteInit == {NUL, ch_R}

-----------------------------------------------------------------------------
(* <ctype.h> in the "C" locale *)

isdigit(c) == c >= 48 /\ c <= 57

toupper(c) == IF c >= 97 /\ c <= 122 THEN c - 32 ELSE c

-----------------------------------------------------------------------------
(* note_to_freq *)

RECURSIVE Pow2(_)
Pow2(n) == IF n <= 0 THEN 1 ELSE 2 * Pow2(n - 1)

\* Fixed point of the doubles: FreqScaleBits fractional bits.
FreqScaleBits == 14

\* round(55.0 * 2^(k/12) * 2^FreqScaleBits) for k = 0..11:
\* base_freq times the twelve half-step ratios within one octave.
BaseFreqStep == <<901120, 954703, 1011473, 1071618, 1135340, 1202851,
                  1274376, 1350154, 1430439, 1515497, 1605613, 1701088>>

\* switch (note)
NoteHalfSteps(n) ==
    CASE n = ch_C -> -21
      [] n = ch_D -> -19
      [] n = ch_E -> -17
      [] n = ch_F -> -16
      [] n = ch_G -> -14
      [] n = ch_A -> -12
      [] n = ch_B -> -10
      [] OTHER -> 0

\* switch (half)
HalfAdjust(half) ==
    CASE half = ch_sharp \/ half = ch_plus -> 1
      [] half = ch_minus -> -1
      [] OTHER -> 0

\* OctaveExp that counts the octaves from octave 1.
OctaveExp_FromOne(oct) ==
    IF oct > 1 THEN oct - 1
    ELSE IF oct < 1 THEN -(-oct)
    ELSE 0

\* The power of two the octave contributes to freq:
\* freq *= pow(2.0, octave) when octave > 1,
\* freq /= pow(2.0, -octave) when octave < 1, nothing when octave = 1.
OctaveExp(oct) ==
    IF oct > 1 THEN oct
    ELSE IF oct < 1 THEN -(-oct)
    ELSE 0

\* round(pow(2.0, half_steps / 12.0) * base_freq * 2^OctaveExp), with
\* 2^(h/12) split as 2^(h div 12) * 2^((h mod 12)/12).
note_to_freq(n, half, oct) ==
    LET half_steps == NoteHalfSteps(n) + HalfAdjust(half)
        t   == (half_steps \div 12) + OctaveExp(oct)
        m   == BaseFreqStep[(half_steps % 12) + 1]
        num == IF t >= 0 THEN m * Pow2(t) ELSE m
        den == IF t >= 0 THEN Pow2(FreqScaleBits) ELSE Pow2(FreqScaleBits - t)
    IN  (num + (den \div 2)) \div den

-----------------------------------------------------------------------------
(* play_note: the calls to tonew after play_note(n, half, oct, dur, tonew), *)
(* made while the character at offset at is being consumed, for the note   *)
(* whose letter is at offset src.                                          *)

\* play_note whose guard lets a duration of 0 through (as a silent tone).
play_note_ZeroPlays(ev, n, half, oct, dur, src, at) ==
    LET up == toupper(n)
    IN  IF dur >= 0
        THEN Append(ev, [freq   |-> IF up # ch_R
                                    THEN note_to_freq(up, half, oct)
                                    ELSE 0,
                         gap    |-> IF dur = 0 THEN 0 ELSE 1000 \div dur,
                         note   |-> n,
                         half   |-> half,
                         octave |-> oct,
                         dur    |-> dur,
                         src    |-> src,
                         at     |-> at])
        ELSE ev

play_note(ev, n, half, oct, dur, src, at) ==
    LET up == toupper(n)
    IN  IF dur >= 1
        THEN Append(ev, [freq   |-> IF up # ch_R
                                    THEN note_to_freq(up, half, oct)
                                    ELSE 0,
                         gap    |-> 1000 \div dur,
                         note   |-> n,
                         half   |-> half,
                         octave |-> oct,
                         dur    |-> dur,
                         src    |-> src,
                         at     |-> at])
        ELSE ev

-----------------------------------------------------------------------------
(* play: the scan loop *)

\* *s, the character at offset pos (NUL at the end of the string)
CharAt(p) == IF p < Len(s) THEN s[p + 1] ELSE NUL

cur == CharAt(pos)

\* (*s >= 'a' && *s <= 'g') || (*s >= 'A' && *s <= 'G') || *s == 'r' || *s == 'R'
IsNoteLetter(c) ==
    \/ (c >= ch_a /\ c <= ch_g)
    \/ (c >= ch_A /\ c <= ch_G)
    \/ c = ch_r
    \/ c = ch_R

\* *s == 'o' || *s == 'O'
IsOctaveMarker(c) == c = ch_o \/ c = ch_O

\* IsHalfTone without the test that the pending note is not a rest.
IsHalfTone_AnyNote(c, n) ==
    c = ch_sharp \/ c = ch_plus \/ c = ch_minus

\* IsHalfTone that tests the pending note against 'R' only.
IsHalfTone_UpperRestOnly(c, n) ==
    /\ (c = ch_sharp \/ c = ch_plus \/ c = ch_minus)
    /\ n # ch_R

\* (*s == '#' || *s == '+' || *s == '-') && note != 'r' && note != 'R'
IsHalfTone(c, n) ==
    /\ (c = ch_sharp \/ c = ch_plus \/ c = ch_minus)
    /\ n # ch_r
    /\ n # ch_R

Init ==
    /\ s \in Inputs
    /\ pos = 0
    /\ state = COMMAND
    /\ octave = 4
    /\ note \in NoteInit
    /\ duration = 1
    /\ half_tone = 0
    /\ pending_note = FALSE
    /\ length_specified = FALSE
    /\ events = <<>>
    /\ note_pos = 0
    /\ pc = "loop"
    /\ ret = 0

\* NoteLetter that leaves half_tone and duration as the last note had them.
NoteLetter_KeepsModifiers ==
    /\ pc = "loop" /\ cur # NUL
    /\ state = COMMAND
    /\ IsNoteLetter(cur)
    /\ note' = cur
    /\ note_pos' = pos
    /\ pending_note' = TRUE
    /\ length_specified' = FALSE
    /\ LET flushed == IF pending_note
                      THEN play_note(events, note, half_tone, octave,
                                     duration, note_pos, pos)
                      ELSE events
       IN  events' = IF CharAt(pos + 1) = NUL
                     THEN play_note(flushed, note', half_tone, octave,
                                    duration, note_pos', pos)
                     ELSE flushed
    /\ pos' = pos + 1
    /\ UNCHANGED <<s, state, octave, half_tone, duration, pc, ret>>

\* NoteLetter without the flush of the note that was pending.
NoteLetter_NoFlushPending ==
    /\ pc = "loop" /\ cur # NUL
    /\ state = COMMAND
    /\ IsNoteLetter(cur)
    /\ events' = IF CharAt(pos + 1) = NUL
                 THEN play_note(events, cur, 0, octave, 1, pos, pos)
                 ELSE events
    /\ note' = cur
    /\ note_pos' = pos
    /\ half_tone' = 0
    /\ duration' = 1
    /\ pending_note' = TRUE
    /\ length_specified' = FALSE
    /\ pos' = pos + 1
    /\ UNCHANGED <<s, state, octave, pc, ret>>

\* NoteLetter without the flush of a note letter that ends the input.
NoteLetter_NoEndFlush ==
    /\ pc = "loop" /\ cur # NUL
    /\ state = COMMAND
    /\ IsNoteLetter(cur)
    /\ events' = IF pending_note
                 THEN play_note(events, note, half_tone, octave,
                                duration, note_pos, pos)
                 ELSE events
    /\ note' = cur
    /\ note_pos' = pos
    /\ half_tone' = 0
    /\ duration' = 1
    /\ pending_note' = TRUE
    /\ length_specified' = FALSE
    /\ pos' = pos + 1
    /\ UNCHANGED <<s, state, octave, pc, ret>>

\* A note letter or a rest in state COMMAND.
NoteLetter ==
    /\ pc = "loop" /\ cur # NUL
    /\ state = COMMAND
    /\ IsNoteLetter(cur)
    /\ note' = cur
    /\ note_pos' = pos
    /\ half_tone' = 0
    /\ duration' = 1
    /\ pending_note' = TRUE
    /\ length_specified' = FALSE
    /\ LET flushed == IF pending_note
                      THEN play_note(events, note, half_tone, octave,
                                     duration, note_pos, pos)
                      ELSE events
       IN  events' = IF CharAt(pos + 1) = NUL
                     THEN play_note(flushed, note', half_tone', octave,
                                    duration', note_pos', pos)
                     ELSE flushed
    /\ pos' = pos + 1
    /\ UNCHANGED <<s, state, octave, pc, ret>>

\* OctaveMarker that drops the pending note without playing it.
OctaveMarker_NoFlush ==
    /\ pc = "loop" /\ cur # NUL
    /\ state = COMMAND
    /\ ~IsNoteLetter(cur)
    /\ IsOctaveMarker(cur)
    /\ IF pending_note
       THEN /\ pending_note' = FALSE
            /\ length_specified' = FALSE
       ELSE UNCHANGED <<pending_note, length_specified>>
    /\ state' = OCTAVE_NUMBER
    /\ pos' = pos + 1
    /\ UNCHANGED <<s, octave, note, duration, half_tone, events, note_pos,
                   pc, ret>>

\* OctaveMarker that also puts the octave back to its default.
OctaveMarker_ResetsOctave ==
    /\ pc = "loop" /\ cur # NUL
    /\ state = COMMAND
    /\ ~IsNoteLetter(cur)
    /\ IsOctaveMarker(cur)
    /\ IF pending_note
       THEN /\ events' = play_note(events, note, half_tone, octave,
                                   duration, note_pos, pos)
            /\ pending_note' = FALSE
            /\ length_specified' = FALSE
       ELSE UNCHANGED <<events, pending_note, length_specified>>
    /\ state' = OCTAVE_NUMBER
    /\ octave' = 4
    /\ pos' = pos + 1
    /\ UNCHANGED <<s, note, duration, half_tone, note_pos, pc, ret>>

\* An octave marker in state COMMAND.
OctaveMarker ==
    /\ pc = "loop" /\ cur # NUL
    /\ state = COMMAND
    /\ ~IsNoteLetter(cur)
    /\ IsOctaveMarker(cur)
    /\ IF pending_note
       THEN /\ events' = play_note(events, note, half_tone, octave,
                                   duration, note_pos, pos)
            /\ pending_note' = FALSE
            /\ length_specified' = FALSE
       ELSE UNCHANGED <<events, pending_note, length_specified>>
    /\ state' = OCTAVE_NUMBER
    /\ pos' = pos + 1
    /\ UNCHANGED <<s, octave, note, duration, half_tone, note_pos, pc, ret>>

\* NoPendingOther that does not move on to the next character.
NoPendingOther_NoAdvance ==
    /\ pc = "loop" /\ cur # NUL
    /\ state = COMMAND
    /\ ~IsNoteLetter(cur)
    /\ ~IsOctaveMarker(cur)
    /\ ~pending_note
    /\ UNCHANGED <<s, pos, state, octave, note, duration, half_tone,
                   pending_note, length_specified, events, note_pos, pc, ret>>

\* Any other character in state COMMAND while no note is pending:
\* no branch of the if chain is taken.
NoPendingOther ==
    /\ pc = "loop" /\ cur # NUL
    /\ state = COMMAND
    /\ ~IsNoteLetter(cur)
    /\ ~IsOctaveMarker(cur)
    /\ ~pending_note
    /\ pos' = pos + 1
    /\ UNCHANGED <<s, state, octave, note, duration, half_tone, pending_note,
                   length_specified, events, note_pos, pc, ret>>

\* A half tone for the pending note, before any duration digit.
HalfTone ==
    /\ pc = "loop" /\ cur # NUL
    /\ state = COMMAND
    /\ ~IsNoteLetter(cur)
    /\ ~IsOctaveMarker(cur)
    /\ pending_note
    /\ ~length_specified
    /\ IsHalfTone(cur, note)
    /\ half_tone' = cur
    /\ pos' = pos + 1
    /\ UNCHANGED <<s, state, octave, note, duration, pending_note,
                   length_specified, events, note_pos, pc, ret>>

\* The first duration digit of the pending note.
FirstDigit ==
    /\ pc = "loop" /\ cur # NUL
    /\ state = COMMAND
    /\ ~IsNoteLetter(cur)
    /\ ~IsOctaveMarker(cur)
    /\ pending_note
    /\ ~length_specified
    /\ ~IsHalfTone(cur, note)
    /\ isdigit(cur)
    /\ duration' = cur - ch_0
    /\ length_specified' = TRUE
    /\ pos' = pos + 1
    /\ UNCHANGED <<s, state, octave, note, half_tone, pending_note, events,
                   note_pos, pc, ret>>

\* RejectModifier that plays the pending note before it returns.
RejectModifier_Flushes ==
    /\ pc = "loop" /\ cur # NUL
    /\ state = COMMAND
    /\ ~IsNoteLetter(cur)
    /\ ~IsOctaveMarker(cur)
    /\ pending_note
    /\ ~length_specified
    /\ ~IsHalfTone(cur, note)
    /\ ~isdigit(cur)
    /\ events' = play_note(events, note, half_tone, octave, duration,
                           note_pos, pos)
    /\ pc' = "returned"
    /\ ret' = pos
    /\ UNCHANGED <<s, pos, state, octave, note, duration, half_tone,
                   pending_note, length_specified, note_pos>>

\* Neither a half tone nor a digit for the pending note: return pos.
RejectModifier ==
    /\ pc = "loop" /\ cur # NUL
    /\ state = COMMAND
    /\ ~IsNoteLetter(cur)
    /\ ~IsOctaveMarker(cur)
    /\ pending_note
    /\ ~length_specified
    /\ ~IsHalfTone(cur, note)
    /\ ~isdigit(cur)
    /\ pc' = "returned"
    /\ ret' = pos
    /\ UNCHANGED <<s, pos, state, octave, note, duration, half_tone,
                   pending_note, length_specified, events, note_pos>>

\* SecondDigit that leaves the note pending after it has played it.
SecondDigit_KeepsPending ==
    /\ pc = "loop" /\ cur # NUL
    /\ state = COMMAND
    /\ ~IsNoteLetter(cur)
    /\ ~IsOctaveMarker(cur)
    /\ pending_note
    /\ length_specified
    /\ isdigit(cur)
    /\ duration' = duration * 10 + cur - ch_0
    /\ events' = play_note(events, note, half_tone, octave, duration',
                           note_pos, pos)
    /\ length_specified' = FALSE
    /\ state' = COMMAND
    /\ pos' = pos + 1
    /\ UNCHANGED <<s, octave, note, half_tone, pending_note, note_pos, pc,
                   ret>>

\* SecondDigit that does not play the note and keeps taking digits.
SecondDigit_KeepsOpen ==
    /\ pc = "loop" /\ cur # NUL
    /\ state = COMMAND
    /\ ~IsNoteLetter(cur)
    /\ ~IsOctaveMarker(cur)
    /\ pending_note
    /\ length_specified
    /\ isdigit(cur)
    /\ duration' = duration * 10 + cur - ch_0
    /\ pos' = pos + 1
    /\ UNCHANGED <<s, state, octave, note, half_tone, pending_note,
                   length_specified, events, note_pos, pc, ret>>

\* SecondDigit that adds the digit without the multiplication by ten.
SecondDigit_NoTimesTen ==
    /\ pc = "loop" /\ cur # NUL
    /\ state = COMMAND
    /\ ~IsNoteLetter(cur)
    /\ ~IsOctaveMarker(cur)
    /\ pending_note
    /\ length_specified
    /\ isdigit(cur)
    /\ duration' = duration + cur - ch_0
    /\ events' = play_note(events, note, half_tone, octave, duration',
                           note_pos, pos)
    /\ pending_note' = FALSE
    /\ length_specified' = FALSE
    /\ state' = COMMAND
    /\ pos' = pos + 1
    /\ UNCHANGED <<s, octave, note, half_tone, note_pos, pc, ret>>

\* The second duration digit: the note is played at once.
SecondDigit ==
    /\ pc = "loop" /\ cur # NUL
    /\ state = COMMAND
    /\ ~IsNoteLetter(cur)
    /\ ~IsOctaveMarker(cur)
    /\ pending_note
    /\ length_specified
    /\ isdigit(cur)
    /\ duration' = duration * 10 + cur - ch_0
    /\ events' = play_note(events, note, half_tone, octave, duration',
                           note_pos, pos)
    /\ pending_note' = FALSE
    /\ length_specified' = FALSE
    /\ state' = COMMAND
    /\ pos' = pos + 1
    /\ UNCHANGED <<s, octave, note, half_tone, note_pos, pc, ret>>

\* RejectAfterDigit that plays the pending note before it returns.
RejectAfterDigit_Flushes ==
    /\ pc = "loop" /\ cur # NUL
    /\ state = COMMAND
    /\ ~IsNoteLetter(cur)
    /\ ~IsOctaveMarker(cur)
    /\ pending_note
    /\ length_specified
    /\ ~isdigit(cur)
    /\ events' = play_note(events, note, half_tone, octave, duration,
                           note_pos, pos)
    /\ pc' = "returned"
    /\ ret' = pos
    /\ UNCHANGED <<s, pos, state, octave, note, duration, half_tone,
                   pending_note, length_specified, note_pos>>

\* Not a digit after the first duration digit: return pos.
RejectAfterDigit ==
    /\ pc = "loop" /\ cur # NUL
    /\ state = COMMAND
    /\ ~IsNoteLetter(cur)
    /\ ~IsOctaveMarker(cur)
    /\ pending_note
    /\ length_specified
    /\ ~isdigit(cur)
    /\ pc' = "returned"
    /\ ret' = pos
    /\ UNCHANGED <<s, pos, state, octave, note, duration, half_tone,
                   pending_note, length_specified, events, note_pos>>

\* OctaveDigit that stores the character instead of its value.
OctaveDigit_RawChar ==
    /\ pc = "loop" /\ cur # NUL
    /\ state = OCTAVE_NUMBER
    /\ isdigit(cur)
    /\ octave' = cur
    /\ state' = COMMAND
    /\ pos' = pos + 1
    /\ UNCHANGED <<s, note, duration, half_tone, pending_note,
                   length_specified, events, note_pos, pc, ret>>

\* The digit after an octave marker.
OctaveDigit ==
    /\ pc = "loop" /\ cur # NUL
    /\ state = OCTAVE_NUMBER
    /\ isdigit(cur)
    /\ octave' = cur - ch_0
    /\ state' = COMMAND
    /\ pos' = pos + 1
    /\ UNCHANGED <<s, note, duration, half_tone, pending_note,
                   length_specified, events, note_pos, pc, ret>>

\* Not a digit after an octave marker: return pos.
RejectOctave ==
    /\ pc = "loop" /\ cur # NUL
    /\ state = OCTAVE_NUMBER
    /\ ~isdigit(cur)
    /\ pc' = "returned"
    /\ ret' = pos
    /\ UNCHANGED <<s, pos, state, octave, note, duration, half_tone,
                   pending_note, length_specified, events, note_pos>>

\* The loop condition *s fails: return -1.
EndOfInput ==
    /\ pc = "loop" /\ cur = NUL
    /\ pc' = "returned"
    /\ ret' = -1
    /\ UNCHANGED <<s, pos, state, octave, note, duration, half_tone,
                   pending_note, length_specified, events, note_pos>>

Next ==
    \/ NoteLetter
    \/ OctaveMarker
    \/ NoPendingOther
    \/ HalfTone
    \/ FirstDigit
    \/ RejectModifier
    \/ SecondDigit
    \/ RejectAfterDigit
    \/ OctaveDigit
    \/ RejectOctave
    \/ EndOfInput

Spec == Init /\ [][Next]_vars

\* The entry of play on the inputs of less than MaxLen characters.
ShortInit == Init /\ Len(s) < MaxLen

\* The loop runs on: an iteration that can be taken is taken.  (The
\* behaviours are those of the inputs of less than MaxLen characters.)
FairSpec == ShortInit /\ [][Next]_vars /\ WF_vars(Next)

-----------------------------------------------------------------------------
(* play as a function of the string: the same loop, on a record of the     *)
(* locals, so that the runs on two strings can be compared.                *)

\* The locals of play and the calls made so far, as one record.
Locals ==
    [pos |-> pos, state |-> state, octave |-> octave, note |-> note,
     duration |-> duration, half_tone |-> half_tone,
     pending_note |-> pending_note, length_specified |-> length_specified,
     events |-> events, note_pos |-> note_pos, pc |-> pc, ret |-> ret]

\* The locals at the entry of the loop.
play_entry ==
    [pos |-> 0, state |-> COMMAND, octave |-> 4, note |-> NUL,
     duration |-> 1, half_tone |-> 0,
     pending_note |-> FALSE, length_specified |-> FALSE,
     events |-> <<>>, note_pos |-> 0, pc |-> "loop", ret |-> 0]

\* One evaluation of the loop condition and, when it holds, of the loop
\* body with "s++, pos++", on string str with locals v.
play_iter(str, v) ==
    LET c    == IF v.pos < Len(str) THEN str[v.pos + 1] ELSE NUL
        nxt  == IF v.pos + 1 < Len(str) THEN str[v.pos + 2] ELSE NUL
        adv  == [v EXCEPT !.pos = v.pos + 1]
        rej  == [v EXCEPT !.pc = "returned", !.ret = v.pos]
        old  == IF v.pending_note
                THEN play_note(v.events, v.note, v.half_tone, v.octave,
                               v.duration, v.note_pos, v.pos)
                ELSE v.events
    IN  IF c = NUL THEN [v EXCEPT !.pc = "returned", !.ret = -1]
        ELSE IF v.state = COMMAND THEN
            IF IsNoteLetter(c) THEN
                [adv EXCEPT !.note = c, !.note_pos = v.pos, !.half_tone = 0,
                            !.duration = 1, !.pending_note = TRUE,
                            !.length_specified = FALSE,
                            !.events = IF nxt = NUL
                                       THEN play_note(old, c, 0, v.octave, 1,
                                                      v.pos, v.pos)
                                       ELSE old]
            ELSE IF IsOctaveMarker(c) THEN
                IF v.pending_note
                THEN [adv EXCEPT !.events = old, !.pending_note = FALSE,
                                 !.length_specified = FALSE,
                                 !.state = OCTAVE_NUMBER]
                ELSE [adv EXCEPT !.state = OCTAVE_NUMBER]
            ELSE IF v.pending_note THEN
                IF ~v.length_specified THEN
                    IF IsHalfTone(c, v.note) THEN [adv EXCEPT !.half_tone = c]
                    ELSE IF isdigit(c)
                    THEN [adv EXCEPT !.duration = c - ch_0,
                                     !.length_specified = TRUE]
                    ELSE rej
                ELSE IF isdigit(c) THEN
                    LET d == v.duration * 10 + c - ch_0
                    IN  [adv EXCEPT !.duration = d,
                                    !.events = play_note(v.events, v.note,
                                                   v.half_tone, v.octave, d,
                                                   v.note_pos, v.pos),
                                    !.pending_note = FALSE,
                                    !.length_specified = FALSE,
                                    !.state = COMMAND]
                ELSE rej
            ELSE adv
        ELSE IF isdigit(c)
             THEN [adv EXCEPT !.octave = c - ch_0, !.state = COMMAND]
             ELSE rej

\* play(str, tonew) from locals v up to its return.
RECURSIVE play_run(_, _)
play_run(str, v) ==
    IF v.pc = "returned" THEN v ELSE play_run(str, play_iter(str, v))

-----------------------------------------------------------------------------
(* Helpers of the properties *)

\* The indices of the calls to tonew made for the note at offset p.
EventsOf(p) == {i \in 1..Len(events) : events[i].src = p}

\* The whole input has been scanned (no character was rejected).
Scanned == pos = Len(s)

\* The frequency play_note hands to tonew for letter n.
ToneFreq(n, half, oct) ==
    IF toupper(n) = ch_R THEN 0 ELSE note_to_freq(toupper(n), half, oct)

-----------------------------------------------------------------------------
\* C1: in state COMMAND with no note pending, a character that is neither
\* a note letter, a rest nor an octave marker is rejected: play returns
\* that character's offset.
C1_UnattachedRejected ==
    [][(/\ pc = "loop" /\ cur # NUL
        /\ state = COMMAND /\ ~pending_note
        /\ ~IsNoteLetter(cur) /\ ~IsOctaveMarker(cur))
       => (pc' = "returned" /\ ret' = pos)]_vars

\* C2: when the input ends right after a note or rest followed by exactly
\* one duration digit d >= 1, exactly one event is emitted for that last
\* note, with gap 1000 div d (frequency 0 for a rest), and play returns -1.
C2_OneDigitAtEnd ==
    (/\ pc = "returned" /\ Scanned
     /\ Len(s) >= 2
     /\ IsNoteLetter(s[Len(s) - 1])
     /\ isdigit(s[Len(s)]) /\ s[Len(s)] - ch_0 >= 1)
    => (/\ ret = -1
        /\ Cardinality(EventsOf(Len(s) - 2)) = 1
        /\ \A i \in EventsOf(Len(s) - 2) :
              /\ events[i].gap = 1000 \div (s[Len(s)] - ch_0)
              /\ (toupper(s[Len(s) - 1]) = ch_R => events[i].freq = 0))

\* C3: when the input ends right after a non-rest note letter followed by
\* #, + or -, exactly one event is emitted for that note, resolved with
\* that letter, that half tone and the current octave, with gap 1000, and
\* play returns -1.
C3_HalfToneAtEnd ==
    (/\ pc = "returned" /\ Scanned
     /\ Len(s) >= 2
     /\ IsNoteLetter(s[Len(s) - 1]) /\ toupper(s[Len(s) - 1]) # ch_R
     /\ s[Len(s)] \in {ch_sharp, ch_plus, ch_minus})
    => (/\ ret = -1
        /\ Cardinality(EventsOf(Len(s) - 2)) = 1
        /\ \A i \in EventsOf(Len(s) - 2) :
              /\ events[i].gap = 1000
              /\ events[i].freq = note_to_freq(toupper(s[Len(s) - 1]),
                                               s[Len(s)], octave))

\* C4: an input that is a single note letter or rest makes exactly one
\* call to tonew, with the frequency of that letter without half tone at
\* octave 4 (262 for C, 0 for a rest) and gap 1000, and play returns -1;
\* a note letter that is the last character of the input is played when
\* it is consumed, with duration 1.
C4_LastLetterFlushed ==
    /\ (pc = "returned" /\ Len(s) = 1 /\ IsNoteLetter(s[1]))
       => (/\ ret = -1
           /\ Len(events) = 1
           /\ events[1].freq = ToneFreq(s[1], 0, 4)
           /\ (toupper(s[1]) = ch_C => events[1].freq = 262)
           /\ events[1].gap = 1000)
    /\ (Scanned /\ Len(s) >= 1 /\ IsNoteLetter(s[Len(s)]))
       => (/\ Len(events) >= 1
           /\ EventsOf(Len(s) - 1) = {Len(events)}
           /\ events[Len(events)].at = Len(s) - 1
           /\ events[Len(events)].dur = 1
           /\ events[Len(events)].gap = 1000
           /\ events[Len(events)].freq = ToneFreq(s[Len(s)], 0, octave))

C4_Witness ==
    /\ pc = "returned" /\ ret = -1
    /\ Len(s) = 1 /\ IsNoteLetter(s[1])
    /\ Len(events) = 1 /\ events[1].freq = 262

\* The input is made of note letters (or rests) only, at least one.
AllLetters == Len(s) >= 1 /\ \A i \in 1..Len(s) : IsNoteLetter(s[i])

\* C5: for an input of n >= 1 note letters without modifiers tonew is
\* called exactly n times, in the order of the letters; the call for the
\* i-th letter (i < n) is made when the (i+1)-th letter is consumed, not
\* when the i-th is; the call for the last letter is made when that last
\* character is consumed; play returns -1.
C5_LetterRun ==
    AllLetters
    => (/\ Len(events) = (IF pos = Len(s) THEN Len(s)
                          ELSE IF pos = 0 THEN 0 ELSE pos - 1)
        /\ \A i \in 1..Len(events) :
              /\ events[i].src = i - 1
              /\ events[i].note = s[i]
              /\ events[i].at = (IF i < Len(s) THEN i ELSE i - 1)
        /\ (pc = "returned" => ret = -1))

C5_Witness ==
    /\ pc = "returned" /\ ret = -1
    /\ Len(s) = 3 /\ AllLetters
    /\ Len(events) = 3

\* C6: while a note is pending and no duration digit has been consumed, a
\* character that is not a note letter, rest, octave marker, digit or (for
\* a note that is not a rest) #, + or - is rejected: play returns its
\* offset, makes no call to tonew for it, and the pending note has not
\* been and is not played; #, + and - after a rest are rejected so.
C6_BadModifierRejected ==
    [][(/\ pc = "loop" /\ cur # NUL
        /\ state = COMMAND /\ pending_note /\ ~length_specified
        /\ ~IsNoteLetter(cur) /\ ~IsOctaveMarker(cur)
        /\ cur \notin 48..57
        /\ ~(cur \in {ch_sharp, ch_plus, ch_minus} /\ toupper(note) # ch_R))
       => (/\ pc' = "returned"
           /\ ret' = pos
           /\ events' = events
           /\ \A i \in 1..Len(events') : events'[i].src # note_pos)]_vars

C6_Witness ==
    /\ pc = "returned" /\ ret = pos /\ pos < Len(s)
    /\ state = COMMAND /\ pending_note /\ ~length_specified
    /\ toupper(note) = ch_R /\ cur = ch_sharp
    /\ EventsOf(note_pos) = {}

\* C7: in state OCTAVE_NUMBER every character that is not a decimal digit
\* (a note letter and an octave marker too) is rejected and play returns
\* its offset; a decimal digit sets the octave to its value 0..9 and
\* brings the parser back to state COMMAND.
C7_OctaveNumber ==
    [][(pc = "loop" /\ cur # NUL /\ state = OCTAVE_NUMBER)
       => IF cur \in 48..57
          THEN /\ octave' = cur - 48
               /\ octave' \in 0..9
               /\ state' = COMMAND
               /\ pc' = "loop"
               /\ pos' = pos + 1
          ELSE /\ pc' = "returned"
               /\ ret' = pos
               /\ octave' = octave]_vars

C7_Witness ==
    /\ pc = "returned" /\ ret = pos /\ pos < Len(s)
    /\ state = OCTAVE_NUMBER
    /\ IsNoteLetter(cur)

\* The octave in effect for a note letter at offset p of a scanned
\* prefix: the value of the digit after the last octave marker before p,
\* 4 when there is none.
OctaveBefore(p) ==
    LET ms == {j \in 1..p : IsOctaveMarker(s[j])}
    IN  IF ms = {} THEN 4
        ELSE s[(CHOOSE j \in ms : \A k \in ms : k <= j) + 1] - 48

\* C8: the octave is 4 at the start of play and changes only when a digit
\* is consumed in state OCTAVE_NUMBER; every note is resolved with the
\* octave set by the last O<digit> before its letter (4 when none).
C8_OctaveFrame ==
    /\ [](pos = 0 => octave = 4)
    /\ [][octave' # octave
          => (/\ state = OCTAVE_NUMBER
              /\ cur \in 48..57
              /\ octave' = cur - 48)]_vars
    /\ [](\A i \in 1..Len(events) :
            /\ events[i].octave = OctaveBefore(events[i].src)
            /\ events[i].freq = ToneFreq(events[i].note, events[i].half,
                                         OctaveBefore(events[i].src)))

C8_Witness ==
    /\ pc = "returned" /\ ret = -1
    /\ Len(s) = 3 /\ s[1] = ch_O /\ s[2] = 57 /\ s[3] = ch_C
    /\ Len(events) = 1
    /\ events[1].octave = 9 /\ events[1].freq = 8372

\* C9: when play rejects the character at offset N it returns N with
\* 0 <= N < length of the input; every character before N was consumed
\* without a return; no call to tonew is made at or after N; the calls
\* made before stay as they are, in order; a note pending at the
\* rejection has not been played.
C9_Rejection ==
    /\ [][pos' # pos => (pos' = pos + 1 /\ pc = "loop" /\ pc' = "loop")]_vars
    /\ [][(pc = "loop" /\ pc' = "returned" /\ ret' # -1)
          => (/\ ret' = pos
              /\ 0 <= pos /\ pos < Len(s)
              /\ events' = events
              /\ \A i \in 1..Len(events) : events[i].at < pos
              /\ \A i, j \in 1..Len(events) :
                    i < j => /\ events[i].at <= events[j].at
                             /\ events[i].src < events[j].src
              /\ (pending_note => EventsOf(note_pos) = {}))]_vars
    /\ [][pc = "returned" => UNCHANGED vars]_vars

C9_Witness ==
    /\ pc = "returned" /\ ret = 2
    /\ Len(s) = 3 /\ IsNoteLetter(s[1]) /\ IsNoteLetter(s[2]) /\ s[3] = 37
    /\ Len(events) = 1 /\ events[1].src = 0
    /\ pending_note /\ EventsOf(note_pos) = {}

\* C10: a note whose duration is 0 when it is flushed (by a note letter,
\* an octave marker or a second digit) makes no call to tonew and no
\* rejection, the scan goes on; 1000 / duration is never computed with
\* duration < 1.
C10_ZeroDuration ==
    /\ [](\A i \in 1..Len(events) :
            /\ events[i].dur >= 1
            /\ events[i].gap = 1000 \div events[i].dur)
    /\ [][(/\ pc = "loop" /\ cur # NUL
           /\ state = COMMAND /\ pending_note
           /\ \/ (duration = 0 /\ (IsNoteLetter(cur) \/ IsOctaveMarker(cur)))
              \/ (length_specified /\ duration = 0 /\ cur = ch_0))
          => (/\ pc' = "loop"
              /\ pos' = pos + 1
              /\ \A i \in 1..Len(events') : events'[i].src # note_pos
              /\ \/ events' = events
                 \/ /\ IsNoteLetter(cur) /\ pos + 1 = Len(s)
                    /\ Len(events') = Len(events) + 1
                    /\ SubSeq(events', 1, Len(events)) = events
                    /\ events'[Len(events')].src = pos)]_vars

C10_Witness ==
    /\ pc = "returned" /\ ret = -1
    /\ Len(s) = 3 /\ IsNoteLetter(s[1]) /\ s[2] = ch_0 /\ IsNoteLetter(s[3])
    /\ EventsOf(0) = {}
    /\ Len(events) = 1 /\ events[1].src = 2

\* C11: while a note is pending and one duration digit d1 has been
\* consumed, a further digit d2 sets duration to 10*d1 + d2; the note is
\* played at that character with gap 1000 div (10*d1 + d2) when that is
\* >= 1; the parser is left in state COMMAND with no pending note and
\* length_specified false.
C11_SecondDigit ==
    [][(/\ pc = "loop" /\ cur # NUL
        /\ state = COMMAND /\ pending_note /\ length_specified
        /\ cur \in 48..57)
       => LET d == 10 * (s[pos] - 48) + (cur - 48)
          IN  /\ duration = s[pos] - 48
              /\ duration' = d
              /\ state' = COMMAND
              /\ ~pending_note'
              /\ ~length_specified'
              /\ pc' = "loop"
              /\ pos' = pos + 1
              /\ IF d >= 1
                 THEN /\ Len(events') = Len(events) + 1
                      /\ SubSeq(events', 1, Len(events)) = events
                      /\ events'[Len(events')].gap = 1000 \div d
                      /\ events'[Len(events')].freq =
                             ToneFreq(note, half_tone, octave)
                      /\ events'[Len(events')].src = note_pos
                      /\ events'[Len(events')].at = pos
                 ELSE events' = events]_vars

C11_Witness ==
    /\ pc = "returned" /\ ret = -1
    /\ Len(s) = 3 /\ s[1] = ch_C /\ s[2] = 49 /\ s[3] = 57
    /\ ~pending_note /\ ~length_specified /\ state = COMMAND
    /\ Len(events) = 1 /\ events[1].gap = 52 /\ events[1].freq = 262

\* The arguments of the calls to tonew in ev, in order.
Calls(ev) == [i \in 1..Len(ev) |-> <<ev[i].freq, ev[i].gap>>]

\* What the caller of play observes: the calls to tonew and the result.
Outcome(v) == <<Calls(v.events), v.ret>>

\* The letters with a meaning: a-g, r, o and A-G, R, O.
IsLowerCmd(c) == (c >= 97 /\ c <= 103) \/ c = 114 \/ c = 111
IsUpperCmd(c) == (c >= 65 /\ c <= 71) \/ c = 82 \/ c = 79

\* str with its letters a-g, r, o in upper case, in lower case, and with
\* the case of each of them changed.
UpperCase(str) ==
    [i \in 1..Len(str) |-> IF IsLowerCmd(str[i]) THEN str[i] - 32 ELSE str[i]]
LowerCase(str) ==
    [i \in 1..Len(str) |-> IF IsUpperCmd(str[i]) THEN str[i] + 32 ELSE str[i]]
SwapCase(str) ==
    [i \in 1..Len(str) |-> IF IsLowerCmd(str[i]) THEN str[i] - 32
                           ELSE IF IsUpperCmd(str[i]) THEN str[i] + 32
                           ELSE str[i]]

\* C12: parsing does not depend on the case of the letters a-g, r, o: the
\* input in upper case, in lower case and with every case changed gives
\* the same calls to tonew and the same result as the input itself.
\* (Every step of the scan is the step play_iter computes.)
C12_CaseInsensitive ==
    /\ [][Locals' = play_iter(s, Locals)]_vars
    /\ [](pc = "returned"
          => /\ Outcome(play_run(UpperCase(s), play_entry)) = <<Calls(events), ret>>
             /\ Outcome(play_run(LowerCase(s), play_entry)) = <<Calls(events), ret>>
             /\ Outcome(play_run(SwapCase(s), play_entry)) = <<Calls(events), ret>>)

C12_Witness ==
    /\ pc = "returned" /\ ret = -1
    /\ Len(s) = 4 /\ s[1] = ch_o /\ s[2] = 57 /\ s[3] = 101 /\ s[4] = ch_r
    /\ Calls(events) = << <<10548, 1000>>, <<0, 1000>> >>
    /\ Outcome(play_run(UpperCase(s), play_entry)) = <<Calls(events), ret>>
    /\ UpperCase(s) # s

\* C13: a pending note accepts at most one of #, + and -: once one has
\* been accepted for the pending note, a further #, + or - for the same
\* note is not accepted (play returns its offset).
C13_OneHalfTone ==
    [][(/\ pc = "loop" /\ cur # NUL
        /\ state = COMMAND /\ pending_note /\ ~length_specified
        /\ half_tone # 0
        /\ cur \in {ch_sharp, ch_plus, ch_minus})
       => (/\ pc' = "returned"
           /\ ret' = pos
           /\ half_tone' = half_tone)]_vars

\* C14: while a note is pending and exactly one duration digit has been
\* consumed, a character that is not a digit, a note letter, a rest or an
\* octave marker (#, + and - too) is rejected: play returns its offset and
\* the pending note has not been and is not played.
C14_AfterDigitRejected ==
    [][(/\ pc = "loop" /\ cur # NUL
        /\ state = COMMAND /\ pending_note /\ length_specified
        /\ cur \notin 48..57
        /\ ~IsNoteLetter(cur) /\ ~IsOctaveMarker(cur))
       => (/\ s[pos] \in 48..57
           /\ pc' = "returned"
           /\ ret' = pos
           /\ events' = events
           /\ \A i \in 1..Len(events') : events'[i].src # note_pos)]_vars

C14_Witness ==
    /\ pc = "returned" /\ ret = 2
    /\ Len(s) >= 3 /\ s[1] = ch_C /\ s[2] = 49 /\ s[3] = ch_sharp
    /\ pending_note /\ length_specified
    /\ events = <<>>

\* C15: an octave marker consumed while a note is pending plays that note
\* at the marker, with the octave in effect before the marker and the
\* note's own half tone and duration (no call when the duration is 0),
\* and leaves no pending note; the octave itself is not changed by the
\* marker.
C15_MarkerFlushes ==
    [][(/\ pc = "loop" /\ cur # NUL
        /\ state = COMMAND /\ pending_note
        /\ cur \in {ch_O, ch_o})
       => (/\ ~pending_note'
           /\ ~length_specified'
           /\ state' = OCTAVE_NUMBER
           /\ octave' = octave
           /\ pos' = pos + 1
           /\ IF duration >= 1
              THEN /\ Len(events') = Len(events) + 1
                   /\ SubSeq(events', 1, Len(events)) = events
                   /\ events'[Len(events')].src = note_pos
                   /\ events'[Len(events')].at = pos
                   /\ events'[Len(events')].octave = octave
                   /\ events'[Len(events')].freq =
                          ToneFreq(note, half_tone, octave)
                   /\ events'[Len(events')].gap = 1000 \div duration
              ELSE events' = events)]_vars

C15_Witness ==
    /\ pc = "returned" /\ ret = -1
    /\ Len(s) = 4 /\ s[1] = ch_C /\ s[2] = ch_O /\ s[3] = 57 /\ s[4] = 101
    /\ Len(events) = 2
    /\ events[1].at = 1 /\ events[1].octave = 4 /\ events[1].freq = 262
    /\ events[2].octave = 9 /\ events[2].freq = 10548

\* The number of #, + and - in a row from index i of the input.
RECURSIVE HalfRun(_)
HalfRun(i) ==
    IF i <= Len(s) /\ s[i] \in {ch_sharp, ch_plus, ch_minus}
    THEN 1 + HalfRun(i + 1)
    ELSE 0

\* The half tone written after the note letter at offset p: the last of
\* the #, + and - that follow it, none for a rest.
WrittenHalf(p) ==
    IF toupper(s[p + 1]) = ch_R \/ HalfRun(p + 2) = 0
    THEN 0
    ELSE s[p + 1 + HalfRun(p + 2)]

\* The duration written after the note letter at offset p: the one or
\* two digits after its half tones, 1 when there is none.
WrittenDuration(p) ==
    LET j == IF toupper(s[p + 1]) = ch_R THEN p + 2
             ELSE p + 2 + HalfRun(p + 2)
    IN  IF j <= Len(s) /\ s[j] \in 48..57
        THEN IF j + 1 <= Len(s) /\ s[j + 1] \in 48..57
             THEN 10 * (s[j] - 48) + (s[j + 1] - 48)
             ELSE s[j] - 48
        ELSE 1

\* C16: a note letter or rest consumed in state COMMAND plays the note
\* that was pending with that note's own half tone and duration, and the
\* new pending note starts with no half tone, duration 1 and
\* length_specified false; every call to tonew is made with the half tone
\* and duration written after its own letter.
C16_NewNoteResets ==
    /\ [][(/\ pc = "loop" /\ cur # NUL
           /\ state = COMMAND
           /\ ((cur >= 65 /\ cur <= 71) \/ (cur >= 97 /\ cur <= 103)
               \/ cur = 82 \/ cur = 114))
          => (/\ note' = cur
              /\ half_tone' = 0
              /\ duration' = 1
              /\ ~length_specified'
              /\ pending_note'
              /\ IF pending_note /\ duration >= 1
                 THEN /\ Len(events') >= Len(events) + 1
                      /\ SubSeq(events', 1, Len(events)) = events
                      /\ events'[Len(events) + 1].src = note_pos
                      /\ events'[Len(events) + 1].half = half_tone
                      /\ events'[Len(events) + 1].dur = duration
                 ELSE \A i \in 1..Len(events') :
                         i > Len(events) => events'[i].src = pos)]_vars
    /\ [](\A i \in 1..Len(events) :
            /\ events[i].half = WrittenHalf(events[i].src)
            /\ events[i].dur = WrittenDuration(events[i].src)
            /\ events[i].gap = 1000 \div WrittenDuration(events[i].src)
            /\ events[i].freq = ToneFreq(s[events[i].src + 1],
                                         WrittenHalf(events[i].src),
                                         events[i].octave))

C16_Witness ==
    /\ pc = "returned" /\ ret = -1
    /\ Len(s) = 4
    /\ s[1] = ch_C /\ s[2] = ch_sharp /\ s[3] = 57 /\ s[4] = 101
    /\ Calls(events) = << <<277, 111>>, <<330, 1000>> >>

\* The offsets below pos that hold a note letter or a rest.
LettersConsumed == {p \in 0..(pos - 1) : IsNoteLetter(s[p + 1])}

\* C17: no note is played twice: the calls to tonew made so far are at
\* most as many as the note letters and rests consumed so far, and they
\* belong to distinct note letters of the input, in increasing order.
C17_PlayedOnce ==
    /\ Len(events) <= Cardinality(LettersConsumed)
    /\ \A i \in 1..Len(events) :
          /\ events[i].src \in LettersConsumed
          /\ events[i].note = s[events[i].src + 1]
    /\ \A i, j \in 1..Len(events) :
          i < j => events[i].src < events[j].src

C17_Witness ==
    /\ pc = "returned" /\ ret = -1
    /\ Len(s) = 4
    /\ IsNoteLetter(s[1]) /\ s[2] = 49 /\ s[3] = 49 /\ IsNoteLetter(s[4])
    /\ Len(events) = 2 /\ events[1].src = 0 /\ events[2].src = 3

\* C18: every call to tonew has gap 1000 div d for a duration d in 1..99,
\* so a gap in 10..1000; the duration of the pending note never exceeds
\* 99.
C18_DurationCap ==
    /\ duration >= 0 /\ duration <= 99
    /\ \A i \in 1..Len(events) :
          /\ events[i].dur >= 1 /\ events[i].dur <= 99
          /\ events[i].gap = 1000 \div events[i].dur
          /\ events[i].gap >= 10 /\ events[i].gap <= 1000

C18_Witness ==
    /\ pc = "returned" /\ ret = -1
    /\ Len(s) = 4 /\ s[2] = 57 /\ s[3] = 57 /\ s[4] = 57
    /\ duration = 99
    /\ Len(events) = 1 /\ events[1].dur = 99 /\ events[1].gap = 10

\* C19: play terminates on every input: every loop iteration consumes
\* exactly one character or returns; play returns in the end, -1 when the
\* whole input was scanned (also in state OCTAVE_NUMBER) and otherwise
\* the offset of the rejected character, never another value.
C19_Terminates ==
    /\ <>(pc = "returned")
    /\ [][/\ pc = "loop"
          /\ \/ (pc' = "loop" /\ pos' = pos + 1 /\ pos < Len(s))
             \/ (pc' = "returned" /\ pos' = pos /\ ret' = -1
                 /\ pos = Len(s))
             \/ (pc' = "returned" /\ pos' = pos /\ ret' = pos
                 /\ pos < Len(s))]_vars
    /\ [](pc = "returned"
          => \/ (ret = -1 /\ pos = Len(s))
             \/ (ret \in 0..(Len(s) - 1) /\ ret = pos))

C19_Witness ==
    /\ pc = "returned" /\ ret = -1
    /\ state = OCTAVE_NUMBER
    /\ Len(s) >= 1 /\ pos = Len(s) /\ IsOctaveMarker(s[Len(s)])

\* The distance between two frequencies.
Dist(a, b) == IF a >= b THEN a - b ELSE b - a

\* C20: for every letter and half tone the resolver scales the base
\* frequency (the one of octave 1) by 2^octave when octave >= 2 and by 1
\* when octave is 0 or 1, up to the rounding to an integer: octaves 0 and
\* 1 give the same frequency, octave 2 gives four times (not two times)
\* the frequency of octave 1, each further octave doubles it; the octave
\* is always in 0..9, and the notes played after O0 and after O1 have the
\* frequency of octave 1.  (The resolver does not depend on the state of
\* play: its table is evaluated in the states of the empty input.)
ResolverScaling ==
    \A n \in {ch_A, ch_B, ch_C, ch_D, ch_E, ch_F, ch_G} :
    \A h \in {0, ch_sharp, ch_plus, ch_minus} :
       LET f1 == note_to_freq(n, h, 1)
       IN  /\ note_to_freq(n, h, 0) = f1
           /\ Dist(note_to_freq(n, h, 2), 4 * f1) <= 2
           /\ note_to_freq(n, h, 2) > 2 * f1 + 1
           /\ \A o \in 2..9 :
                 Dist(note_to_freq(n, h, o), Pow2(o) * f1) <= Pow2(o - 1)
           /\ \A o \in 2..8 :
                 Dist(note_to_freq(n, h, o + 1),
                      2 * note_to_freq(n, h, o)) <= 1

-----------------------------------------------------------------------------
(* Type correctness *)

TypeOK ==
    /\ s \in Inputs
    /\ pos \in 0..Len(s)
    /\ state \in {COMMAND, OCTAVE_NUMBER}
    /\ octave \in 0..9
    /\ duration \in 0..99
    /\ pending_note \in BOOLEAN
    /\ length_specified \in BOOLEAN
    /\ pc \in {"loop", "returned"}
    /\ ret \in -1..MaxLen

====
